---- MODULE Spec2Model ----
(***************************************************************************)
(* Model of the Anki grammar-check add-on (src/__init__.py).               *)
(*                                                                         *)
(* The editor button runs on_grammar_check, which copies the note's fields *)
(* into a dict, calls check_grammar (credential check, schema, one         *)
(* openai.chat.completions.create call, json.loads of the answer) and      *)
(* writes the returned mapping back into the note.  The handler is         *)
(* modelled statement group by statement group with a program counter, so  *)
(* that the order of the request, the field writes, the editor reload and  *)
(* the notices is part of the state.                                       *)
(*                                                                         *)
(* The undo (restore) operation described in section 4.5 of the            *)
(* specification has no code in src/__init__.py; it is modelled from the   *)
(* specification text.                                                     *)
(***************************************************************************)
EXTENDS Integers, Sequences, FiniteSets, TLC

VARIABLES
    editorNote,   \* editor.note (line 121): a sequence of [name, value]; <<>> is None
    config,       \* what get_config() returns (lines 16-20)
    pc,           \* position of the running handler
    op,           \* the handler that is running or ran last
    fields,       \* on_grammar_check's dict `fields`: the values read at line 128
    schema,       \* check_grammar's json_schema (lines 50-68)
    response,     \* outcome of openai.chat.completions.create (line 94), in flight
    result,       \* corrected_fields, the value check_grammar returned (line 130)
    idx,          \* position of the loop over corrected_fields.items() (line 133)
    events,       \* host calls made by the running handler, in order
    exc,          \* exception that propagated out of the handler ("" when none)
    requests,     \* number of completion requests sent so far
    history       \* outcomes of the finished user actions, oldest first

vars == <<editorNote, config, pc, op, fields, schema, response, result, idx,
          events, exc, requests, history>>

-----------------------------------------------------------------------------
(* Bounds *)

\* user actions (corrections and undos) per behaviour
MaxActions == 3
\* entries of a corrected_fields mapping in a response
MaxItems == 2

-----------------------------------------------------------------------------
(* Values *)

\* JSON / Python scalars, all of one shape so that they can be compared
Str(s) == [t |-> "str", s |-> s]
Num(s) == [t |-> "num", s |-> s]

Item(k, v) == [k |-> k, v |-> v]

\* Python objects check_grammar can return (json.loads maps null to None)
PyNone == [t |-> "none", s |-> "", items |-> <<>>]
PyDict(items) == [t |-> "dict", s |-> "", items |-> items]
PyStr(s) == [t |-> "str", s |-> s, items |-> <<>>]
PyNum(s) == [t |-> "num", s |-> s, items |-> <<>>]
PyList(items) == [t |-> "list", s |-> "", items |-> items]

Reserved == "OriginalContent"

Field(n, v) == [name |-> n, value |-> v]
NoNote == <<>>

Range(seq) == {seq[i] : i \in DOMAIN seq}

\* note.keys(): the field names in note-type order
Keys(note) == [i \in DOMAIN note |-> note[i].name]
KeySet(note) == {note[i].name : i \in DOMAIN note}

\* note[name]
NoteGet(note, name) == note[CHOOSE i \in DOMAIN note : note[i].name = name].value

\* editor.note[name] = value, for a name the note has
NoteSetItem(note, name, value) ==
    [i \in DOMAIN note |->
        IF note[i].name = name THEN Field(name, value) ELSE note[i]]

-----------------------------------------------------------------------------
(* Configuration *)

Config(has, key) == [has |-> has, api_key |-> key]

Configs == {Config(FALSE, ""), Config(TRUE, ""), Config(TRUE, "sk-test")}

\* get_api_key: config.get("api_key", "")
get_api_key(cfg) == IF cfg.has THEN cfg.api_key ELSE ""

\* a credential check that only notices a missing key, not an empty one
NotApiKeyAbsentOnly(cfg) == ~cfg.has

\* `not api_key`
NotApiKey(cfg) == get_api_key(cfg) = ""

-----------------------------------------------------------------------------
(* The completion call and its outcomes *)

Top(t, has, cf) == [t |-> t, has |-> has, cf |-> cf]
NoTop == Top("none", FALSE, PyNone)

\* the call returned; message.content is a text of the given form
Content(form, top) == [kind |-> "content", detail |-> "", form |-> form, top |-> top]
\* the call raised
Raised(kind, detail) == [kind |-> kind, detail |-> detail, form |-> "", top |-> NoTop]
NoResponse == [kind |-> "", detail |-> "", form |-> "", top |-> NoTop]

ResponseKeys == {"Front", "Back", Reserved, "Extra"}
ResponseValues == {Str("c"), Num("1")}
ResponseItems == {Item(k, v) : k \in ResponseKeys, v \in ResponseValues}

DistinctKeys(items) ==
    \A i, j \in DOMAIN items : i # j => items[i].k # items[j].k

\* the mappings a response can carry: any keys, any order, any values
Mappings ==
    {m \in UNION {[1..n -> ResponseItems] : n \in 0..MaxItems} : DistinctKeys(m)}

\* values of "corrected_fields" that are no mapping
NonMappings ==
    {PyNone, PyStr(""), PyStr("c"), PyNum("0"), PyNum("1"),
     PyList(<<>>), PyList(<<Item("", Str("c"))>>)}

Tops ==
    {Top("dict", TRUE, PyDict(m)) : m \in Mappings}
        \cup {Top("dict", TRUE, v) : v \in NonMappings}
        \cup {Top("dict", FALSE, PyNone), Top("list", FALSE, PyNone)}

Responses ==
    {Content("json", t) : t \in Tops}
        \cup {Content("fenced", Top("dict", TRUE, PyDict(<<Item("Front", Str("c"))>>))),
              Content("garbage", NoTop),
              Content("none", NoTop)}
        \cup {Raised("BadRequestError", "refusal"),
              Raised("BadRequestError", "invalid schema"),
              Raised("APIConnectionError", ""),
              Raised("RateLimitError", ""),
              Raised("APIStatusError", "")}

\* json.loads(corrected_text): only a bare JSON text parses; a fenced text, a
\* text that is no JSON and a None content all raise
json_loads(r) ==
    IF r.form = "json" THEN [ok |-> TRUE, top |-> r.top]
    ELSE [ok |-> FALSE, top |-> NoTop]

\* corrected_data.get("corrected_fields", {}); only a dict has .get
GetCorrectedFields(top) ==
    IF top.t # "dict" THEN [ok |-> FALSE, value |-> PyNone]
    ELSE IF top.has THEN [ok |-> TRUE, value |-> top.cf]
    ELSE [ok |-> TRUE, value |-> PyDict(<<>>)]

\* the schema: one property per key of `fields`, all of them required
BuildSchema(f) ==
    [built |-> TRUE, properties |-> KeySet(f), required |-> Keys(f)]
NoSchema == [built |-> FALSE, properties |-> {}, required |-> <<>>]

\* the try block of check_grammar and its except clauses: the value returned
\* and the notice shown (the empty string when none is)
TryOutcome(r) ==
    IF r.kind = "content" THEN
        LET p == json_loads(r) IN
        LET g == GetCorrectedFields(p.top) IN
        IF p.ok /\ g.ok THEN [value |-> g.value, notice |-> ""]
        ELSE [value |-> PyNone, notice |-> "showInfo:error"]
    ELSE IF r.kind = "BadRequestError" THEN
        IF r.detail = "refusal"
        THEN [value |-> PyNone, notice |-> "showInfo:refusal"]
        ELSE [value |-> PyNone, notice |-> "showInfo:unexpected"]
    ELSE [value |-> PyNone, notice |-> "showInfo:error"]

\* an except clause that sends the request again
AfterTryRetry(r) == IF r.kind = "RateLimitError" THEN "create" ELSE "apply"

\* where control goes after the try statement: every branch returns to the caller
AfterTry(r) == "apply"

\* a success test that only rules out None
TruthyNotNone(v) == v.t # "none"

\* Python truth value of the object returned by check_grammar
Truthy(v) ==
    CASE v.t = "none" -> FALSE
      [] v.t = "dict" -> v.items # <<>>
      [] v.t = "list" -> v.items # <<>>
      [] v.t = "str" -> v.s # ""
      [] v.t = "num" -> v.s # "0"

\* a write that treats the note as a dict: an unknown name becomes a new field
ApplyFieldAsDict(note, name, value) ==
    IF name \in KeySet(note) THEN NoteSetItem(note, name, value)
    ELSE Append(note, Field(name, value))

\* a write that rebuilds the note from the written field alone
ApplyFieldBlankOthers(note, name, value) ==
    IF name \in KeySet(note)
    THEN [i \in DOMAIN note |->
            IF note[i].name = name THEN Field(name, value)
            ELSE Field(note[i].name, Str(""))]
    ELSE note

\* if field_name in note: editor.note[field_name] = corrected_value
ApplyField(note, name, value) ==
    IF name \in KeySet(note) THEN NoteSetItem(note, name, value) ELSE note

-----------------------------------------------------------------------------
(* Snapshot and restore (specification section 4.5) *)

NonReserved(note) == SelectSeq(note, LAMBDA f : f.name # Reserved)

\* JSON text of one value
DumpValue(v) == IF v.t = "str" THEN "\"" \o v.s \o "\"" ELSE v.s

RECURSIVE DumpMembers(_)
DumpMembers(fs) ==
    IF fs = <<>> THEN ""
    ELSE "\"" \o Head(fs).name \o "\": " \o DumpValue(Head(fs).value)
            \o (IF Tail(fs) = <<>> THEN "" ELSE ", " \o DumpMembers(Tail(fs)))

\* the flat name -> value JSON object text of a sequence of fields
Dumps(fs) == "{" \o DumpMembers(fs) \o "}"

\* the text snapshot(record) stores in the reserved field
SnapshotText(note) == Dumps(NonReserved(note))

SnapshotNames == {"Front", "Back", Reserved}
SnapshotValues == {Str("a"), Str("b")}
SnapshotFields == {Field(n, v) : n \in SnapshotNames, v \in SnapshotValues}

\* the objects a snapshot text can decode to
SnapshotObjects ==
    {o \in UNION {[1..n -> SnapshotFields] : n \in 0..2} :
        \A i, j \in DOMAIN o : i # j => o[i].name # o[j].name}

\* decoding a snapshot text: the object whose JSON text it is, if there is one
Loads(text) ==
    IF \E o \in SnapshotObjects : Dumps(o) = text
    THEN [ok |-> TRUE, object |-> CHOOSE o \in SnapshotObjects : Dumps(o) = text]
    ELSE [ok |-> FALSE, object |-> <<>>]

RECURSIVE OverwriteAll(_, _)
\* overwrite each named field with its snapshot value, skipping the reserved name
OverwriteAll(note, object) ==
    IF object = <<>> THEN note
    ELSE LET f == Head(object) IN
         OverwriteAll(IF f.name # Reserved /\ f.name \in KeySet(note)
                      THEN NoteSetItem(note, f.name, f.value)
                      ELSE note,
                      Tail(object))

\* a restore that forgets to clear the reserved field
RestoreKeepSnapshot(note) ==
    IF Reserved \notin KeySet(note) \/ NoteGet(note, Reserved) = Str("")
    THEN [note |-> note, notice |-> "tooltip:nothing_to_undo"]
    ELSE LET v == NoteGet(note, Reserved) IN
         LET d == IF v.t = "str" THEN Loads(v.s) ELSE [ok |-> FALSE, object |-> <<>>] IN
         IF ~d.ok THEN [note |-> note, notice |-> "showInfo:decode_error"]
         ELSE [note |-> OverwriteAll(note, d.object), notice |-> "tooltip:restored"]

\* restore(record): the record afterwards and the notice shown
Restore(note) ==
    IF Reserved \notin KeySet(note) \/ NoteGet(note, Reserved) = Str("")
    THEN [note |-> note, notice |-> "tooltip:nothing_to_undo"]
    ELSE LET v == NoteGet(note, Reserved) IN
         LET d == IF v.t = "str" THEN Loads(v.s) ELSE [ok |-> FALSE, object |-> <<>>] IN
         IF ~d.ok THEN [note |-> note, notice |-> "showInfo:decode_error"]
         ELSE [note |-> NoteSetItem(OverwriteAll(note, d.object), Reserved, Str("")),
               notice |-> "tooltip:restored"]

-----------------------------------------------------------------------------
(* Initial states *)

FieldTexts == {Str("a"), Str("b")}

\* what the reserved field of a record can hold before the first action: nothing,
\* a text that is no JSON, or the snapshot of earlier field values
ReservedTexts ==
    {Str(""), Str("x"),
     Str(Dumps(<<Field("Front", Str("a")), Field("Back", Str("b"))>>)),
     Str(Dumps(<<Field("Front", Str("b"))>>))}

Notes ==
    {<<Field("Front", f), Field("Back", b)>> : f \in FieldTexts, b \in FieldTexts}
        \cup {<<Field("Front", f), Field("Back", b), Field(Reserved, o)>> :
                  f \in FieldTexts, b \in FieldTexts, o \in ReservedTexts}

Init ==
    /\ editorNote \in Notes \cup {NoNote}
    /\ config \in Configs
    /\ pc = "idle"
    /\ op = ""
    /\ fields = <<>>
    /\ schema = NoSchema
    /\ response = NoResponse
    /\ result = PyNone
    /\ idx = 0
    /\ events = <<>>
    /\ exc = ""
    /\ requests = 0
    /\ history = <<>>

-----------------------------------------------------------------------------
(* on_grammar_check and check_grammar *)

\* the button is pressed: lines 121-130, up to the call of check_grammar
OnGrammarCheck ==
    /\ pc = "idle"
    /\ Len(history) < MaxActions
    /\ op' = "check"
    /\ IF editorNote = NoNote
       THEN /\ pc' = "done"
            /\ fields' = <<>>
       ELSE /\ pc' = "check_grammar"
            /\ fields' = editorNote
    /\ UNCHANGED <<editorNote, config, schema, response, result, idx, events,
                   exc, requests, history>>

\* check_grammar, lines 39-45: the credential check
CheckApiKey ==
    /\ pc = "check_grammar"
    /\ IF NotApiKey(config)
       THEN /\ events' = Append(events, "showInfo:set_api_key")
            /\ result' = PyNone
            /\ pc' = "apply"
       ELSE /\ pc' = "build"
            /\ UNCHANGED <<events, result>>
    /\ UNCHANGED <<editorNote, config, op, fields, schema, response, idx, exc,
                   requests, history>>

\* check_grammar, lines 47-91: the schema, the response format and the messages
BuildRequest ==
    /\ pc = "build"
    /\ schema' = BuildSchema(fields)
    /\ pc' = "create"
    /\ UNCHANGED <<editorNote, config, op, fields, response, result, idx, events,
                   exc, requests, history>>

\* check_grammar, lines 94-98: the request is sent and the call returns or raises
CreateCompletion ==
    /\ pc = "create"
    /\ \E r \in Responses : response' = r
    /\ requests' = requests + 1
    /\ events' = Append(events, "request")
    /\ pc' = "handle"
    /\ UNCHANGED <<editorNote, config, op, fields, schema, result, idx, exc,
                   history>>

\* check_grammar, lines 99-117: the answer is parsed, or the exception handled
HandleResponse ==
    /\ pc = "handle"
    /\ LET o == TryOutcome(response) IN
       /\ result' = o.value
       /\ events' = IF o.notice = "" THEN events ELSE Append(events, o.notice)
    /\ pc' = AfterTry(response)
    /\ UNCHANGED <<editorNote, config, op, fields, schema, response, idx, exc,
                   requests, history>>

\* on_grammar_check, lines 131-133: the test of the result and the start of the loop
ApplyResult ==
    /\ pc = "apply"
    /\ IF ~Truthy(result)
       THEN /\ pc' = "done"
            /\ UNCHANGED <<idx, exc>>
       ELSE IF result.t # "dict"
       THEN \* .items() of a str, a number or a list: AttributeError, not caught
            /\ exc' = "AttributeError"
            /\ pc' = "done"
            /\ UNCHANGED idx
       ELSE /\ idx' = 1
            /\ pc' = "write"
            /\ UNCHANGED exc
    /\ UNCHANGED <<editorNote, config, op, fields, schema, response, result,
                   events, requests, history>>

\* on_grammar_check, lines 133-135: one iteration of the loop
WriteField ==
    /\ pc = "write"
    /\ idx <= Len(result.items)
    /\ LET item == result.items[idx] IN
       /\ editorNote' = ApplyField(editorNote, item.k, item.v)
       /\ events' = IF item.k \in KeySet(editorNote)
                    THEN Append(events, "set:" \o item.k)
                    ELSE events
    /\ idx' = idx + 1
    /\ UNCHANGED <<config, pc, op, fields, schema, response, result, exc,
                   requests, history>>

\* on_grammar_check, lines 137-138: the editor reload and the success notice
LoadNote ==
    /\ pc = "write"
    /\ idx > Len(result.items)
    /\ events' = events \o <<"loadNote", "tooltip:updated">>
    /\ pc' = "done"
    /\ UNCHANGED <<editorNote, config, op, fields, schema, response, result, idx,
                   exc, requests, history>>

\* the undo action on the record in the editor
OnUndo ==
    /\ pc = "idle"
    /\ Len(history) < MaxActions
    /\ editorNote # NoNote
    /\ op' = "undo"
    /\ LET r == Restore(editorNote) IN
       /\ editorNote' = r.note
       /\ events' = Append(events, r.notice)
    /\ pc' = "done"
    /\ UNCHANGED <<config, fields, schema, response, result, idx, exc, requests,
                   history>>

\* what the finished action did, for the record of finished actions
Outcome ==
    IF op = "undo" THEN events[Len(events)]
    ELSE IF exc # "" THEN "raised"
    ELSE IF \E i \in DOMAIN events : events[i] = "loadNote" THEN "corrected"
    ELSE "no_change"

\* the handler returns to the host; its locals are gone
Return ==
    /\ pc = "done"
    /\ history' = Append(history, Outcome)
    /\ pc' = "idle"
    /\ schema' = NoSchema
    /\ response' = NoResponse
    /\ result' = PyNone
    /\ idx' = 0
    /\ events' = <<>>
    /\ exc' = ""
    /\ UNCHANGED <<editorNote, config, op, fields, requests>>

Next ==
    \/ OnGrammarCheck
    \/ CheckApiKey
    \/ BuildRequest
    \/ CreateCompletion
    \/ HandleResponse
    \/ ApplyResult
    \/ WriteField
    \/ LoadNote
    \/ OnUndo
    \/ Return

Spec == Init /\ [][Next]_vars

-----------------------------------------------------------------------------
(* Vocabulary of the properties *)

HasEvent(e) == \E i \in DOMAIN events : events[i] = e

CheckDone == pc = "done" /\ op = "check" /\ fields # <<>>

FailureNotices ==
    {"showInfo:set_api_key", "showInfo:error", "showInfo:refusal",
     "showInfo:unexpected"}

FailureNoticeShown == \E i \in DOMAIN events : events[i] \in FailureNotices

\* the configured api_key is missing or empty
EmptyCredential == ~config.has \/ config.api_key = ""

RaisedKinds ==
    {"BadRequestError", "APIConnectionError", "RateLimitError", "APIStatusError"}

\* the answer arrived and is a JSON object carrying "corrected_fields"
AnswerParsed ==
    /\ response.kind = "content"
    /\ response.form = "json"
    /\ response.top.t = "dict"
    /\ response.top.has

\* the answer's mapping names a key the record does not have, or a non-string value
MappingInvalid ==
    /\ AnswerParsed
    /\ response.top.cf.t = "dict"
    /\ \E i \in DOMAIN response.top.cf.items :
          \/ response.top.cf.items[i].k \notin KeySet(fields)
          \/ response.top.cf.items[i].v.t # "str"

\* the answer is JSON of the wrong shape: no object, "corrected_fields" no
\* mapping, an unknown key or a non-string value
ShapeMismatch ==
    /\ response.kind = "content"
    /\ response.form = "json"
    /\ \/ response.top.t # "dict"
       \/ response.top.has /\ response.top.cf.t # "dict"
       \/ MappingInvalid

\* the failure classes of a correction action
FailureClass ==
    \/ EmptyCredential
    \/ response.kind \in RaisedKinds
    \/ response.kind = "content" /\ response.form # "json"
    \/ ShapeMismatch

ResultKeys == {result.items[i].k : i \in DOMAIN result.items}
ResultValue(k) == result.items[CHOOSE i \in DOMAIN result.items : result.items[i].k = k].v

WriteEvents == {"set:" \o k : k \in ResponseKeys}
SuccessEvents == {"loadNote", "tooltip:updated"}

\* the correction actions triggered so far: the finished ones and the running one
ChecksTriggered ==
    Cardinality({i \in DOMAIN history : history[i] \in {"raised", "corrected", "no_change"}})
        + (IF pc # "idle" /\ op = "check" THEN 1 ELSE 0)

RequestsOfAction == Cardinality({i \in DOMAIN events : events[i] = "request"})

UndoOutcomes ==
    {"tooltip:nothing_to_undo", "tooltip:restored", "showInfo:decode_error"}

LastWasUndo == history # <<>> /\ history[Len(history)] \in UndoOutcomes

\* the step in which the undo action runs
UndoStep == pc = "idle" /\ pc' = "done" /\ op' = "undo"

-----------------------------------------------------------------------------
(* Properties *)

\* C1: whenever a correction action has ended in one of the failure classes
\* (empty credential, the call raised, the answer is no JSON, the answer has the
\* wrong shape), a failure notice was shown, no exception left on_grammar_check
\* and every field of the record holds the value it had when the action began.
C1_FailuresAreNoticedAndHarmless ==
    (CheckDone /\ FailureClass) =>
        /\ FailureNoticeShown
        /\ exc = ""
        /\ editorNote = fields

\* C2: with a missing or empty api_key no request is ever sent, check_grammar
\* returns None, and the record is as it was when the correction began.
C2_EmptyCredentialSendsNothing ==
    EmptyCredential =>
        /\ requests = 0
        /\ ~HasEvent("request")
        /\ response = NoResponse
        /\ result = PyNone
        /\ (op = "check" => editorNote = fields)

\* C2 witness: a correction with an empty (present) api_key has ended with the
\* notice that asks for the key.
C2_Witness ==
    /\ pc = "done" /\ op = "check"
    /\ config.has /\ config.api_key = ""
    /\ events = <<"showInfo:set_api_key">>

\* C3: a correction action never sends a second request, whatever the outcome
\* of the call, so the requests sent never outnumber the actions triggered; an
\* action that got past the credential check has sent exactly one when it ends.
C3_OneAttemptPerAction ==
    /\ RequestsOfAction <= 1
    /\ requests <= ChecksTriggered
    /\ (CheckDone /\ ~EmptyCredential) => RequestsOfAction = 1

\* C3 witness: a second action's request has failed with a rate-limit rejection
\* after the first action also sent its request.
C3_Witness ==
    /\ pc = "done" /\ op = "check"
    /\ response.kind = "RateLimitError"
    /\ requests = 2
    /\ Len(history) = 1

\* C4: when a correction has ended with a result mapping whose keys are all
\* field names of the record, each field the result names holds the result's
\* value and every other field holds its value from before the action.
C4_PartialResultApplied ==
    (CheckDone /\ result.t = "dict" /\ ResultKeys \subseteq KeySet(fields)) =>
        /\ Keys(editorNote) = Keys(fields)
        /\ \A n \in KeySet(fields) :
              NoteGet(editorNote, n) =
                  IF n \in ResultKeys THEN ResultValue(n) ELSE NoteGet(fields, n)

\* C4 witness: a result naming only Front was applied to a record with three
\* fields, and Front changed.
C4_Witness ==
    /\ CheckDone
    /\ result.t = "dict" /\ ResultKeys = {"Front"}
    /\ Len(fields) = 3
    /\ NoteGet(editorNote, "Front") # NoteGet(fields, "Front")
    /\ HasEvent("loadNote")

\* C5: when the answer's mapping names a key the record does not have, or
\* carries a non-string value, the correction ends with an error notice and no
\* field of the record has changed.
C5_InvalidMappingRejected ==
    (CheckDone /\ MappingInvalid) =>
        /\ FailureNoticeShown
        /\ editorNote = fields

\* C6: the schema built for a request has as properties, and as required
\* properties, exactly the record's field names without the reserved one.
C6_SchemaExcludesReserved ==
    schema.built =>
        /\ schema.properties = KeySet(fields) \ {Reserved}
        /\ Range(schema.required) = KeySet(fields) \ {Reserved}

\* C7: for a record with the reserved field, a successful correction leaves the
\* JSON text of the pre-correction values of the other fields in the reserved
\* field, and an undo performed next gives every other field its pre-correction
\* value and empties the reserved field.
C7_SnapshotThenUndoRoundTrip ==
    /\ (CheckDone /\ Reserved \in KeySet(fields) /\ HasEvent("loadNote")) =>
          NoteGet(editorNote, Reserved) = Str(SnapshotText(fields))
    /\ (/\ pc = "done" /\ op = "undo"
        /\ history # <<>> /\ history[Len(history)] = "corrected"
        /\ Reserved \in KeySet(fields)) =>
          /\ NonReserved(editorNote) = NonReserved(fields)
          /\ NoteGet(editorNote, Reserved) = Str("")

\* C8 as stated: an undo that follows an undo reports "nothing to undo" and
\* alters no field, and an undo on a record whose reserved field is absent or
\* empty alters no field.
C8_SecondRestoreReportsNothing ==
    [][UndoStep =>
          /\ LastWasUndo =>
                /\ editorNote' = editorNote
                /\ events' = <<"tooltip:nothing_to_undo">>
          /\ (Reserved \notin KeySet(editorNote)
                \/ NoteGet(editorNote, Reserved) = Str("")) =>
                editorNote' = editorNote]_vars

\* C8 amended: an undo that follows an undo alters no field, and reports
\* "nothing to undo" unless the earlier undo failed to decode the snapshot (then
\* the snapshot is still there and the decode error is reported again); an undo
\* on a record whose reserved field is absent or empty reports "nothing to
\* undo" and alters no field.
C8_SecondRestoreIsNoOp ==
    [][UndoStep =>
          /\ LastWasUndo =>
                /\ editorNote' = editorNote
                /\ history[Len(history)] # "showInfo:decode_error" =>
                      events' = <<"tooltip:nothing_to_undo">>
                /\ history[Len(history)] = "showInfo:decode_error" =>
                      events' = <<"showInfo:decode_error">>
          /\ (Reserved \notin KeySet(editorNote)
                \/ NoteGet(editorNote, Reserved) = Str("")) =>
                /\ editorNote' = editorNote
                /\ events' = <<"tooltip:nothing_to_undo">>]_vars

\* C8 witness: an undo that restored the fields was followed by an undo that
\* reported "nothing to undo".
C8_Witness ==
    /\ pc = "done" /\ op = "undo"
    /\ history = <<"tooltip:restored">>
    /\ events = <<"tooltip:nothing_to_undo">>

\* C9: no step adds, removes or reorders the record's field names.
C9_FieldNamesInvariant == [][Keys(editorNote') = Keys(editorNote)]_vars

\* C9 witness: a correction whose result names a field the record does not have
\* ran to its end and wrote the fields the record has.
C9_Witness ==
    /\ CheckDone
    /\ HasEvent("loadNote")
    /\ result.t = "dict"
    /\ \E k \in ResultKeys : k \notin KeySet(editorNote)
    /\ editorNote # fields

\* C10: the editor reload and the success notice occur only in a correction
\* whose result is a non-empty mapping, after the loop has handled every entry
\* and with no field write after them; a correction whose result is None or
\* empty, or whose answer lacks "corrected_fields", ends with no field written,
\* no reload and no success notice.
C10_ReloadOnlyAfterWrites ==
    /\ \A i \in DOMAIN events :
          events[i] \in SuccessEvents =>
              /\ op = "check"
              /\ result.t = "dict" /\ result.items # <<>>
              /\ idx = Len(result.items) + 1
              /\ \A j \in DOMAIN events : events[j] \in WriteEvents => j < i
              /\ Cardinality({j \in DOMAIN events : events[j] \in WriteEvents})
                    = Cardinality(ResultKeys \cap KeySet(editorNote))
    /\ (/\ pc = "done" /\ op = "check"
        /\ \/ result.t = "none"
           \/ result.t = "dict" /\ result.items = <<>>
           \/ /\ response.kind = "content" /\ response.form = "json"
              /\ response.top.t = "dict" /\ ~response.top.has) =>
          /\ editorNote = fields
          /\ \A i \in DOMAIN events :
                events[i] \notin WriteEvents \cup SuccessEvents

\* C10 witness: a correction wrote both entries of its result, then reloaded
\* the editor and showed the success notice.
C10_Witness ==
    /\ pc = "done"
    /\ events = <<"request", "set:Front", "set:Back", "loadNote", "tooltip:updated">>

====
